---------------------------- MODULE Spec2Model ----------------------------
(***************************************************************************)
(* Schema-name matching workflow of stockaffirm/scratchpad:                *)
(*   normalizer.py   SimpleSchemaNormalizer.normalize (pure function)      *)
(*   graph_nodes.py  the four nodes of the comparison graph                *)
(*   app.py          the graph wiring and the continue/terminate decision  *)
(*                                                                         *)
(* A Python str is modelled as a sequence of one-character strings, so     *)
(* that lowercasing, splitting, substring search and character removal are *)
(* computed the way the code computes them.  A score 0.0 / 1.0 is the      *)
(* integer 0 / 1.                                                          *)
(***************************************************************************)
EXTENDS Integers, Sequences, FiniteSets, TLC

VARIABLES
    \* --- SchemaAnalysisState (state.py) ---
    input_schema_list,
    all_db_schemas,
    current_input_schema_idx,
    current_db_schema_idx,
    canonical_forms,
    final_output,
    \* --- position of the graph run (app.py edges) ---
    pc,
    \* --- history of the run: how often each node ran, how often the
    \*     normalizer was invoked per identifier ---
    node_runs,
    normalize_calls,
    \* --- harness of the pure function normalize ---
    schema_name,
    variant,
    xform,
    result,
    variant_result,
    npc,
    \* --- main() of analyze_project_langgraph.py ---
    file_paths,
    files,
    file_idx,
    main_pc,
    graph_state,
    all_final_analyses,
    final_report,
    s3_objects,
    \* --- history of main(): the nodes that ran, with their outcome ---
    stage_log

vars == << input_schema_list, all_db_schemas, current_input_schema_idx,
           current_db_schema_idx, canonical_forms, final_output, pc,
           node_runs, normalize_calls,
           schema_name, variant, xform, result, variant_result, npc,
           file_paths, files, file_idx, main_pc, graph_state,
           all_final_analyses, final_report, s3_objects, stage_log >>

driver_vars == << input_schema_list, all_db_schemas, current_input_schema_idx,
                  current_db_schema_idx, canonical_forms, final_output, pc,
                  node_runs, normalize_calls >>

harness_vars == << schema_name, variant, xform, result, variant_result, npc >>

pipeline_vars == << file_paths, files, file_idx, main_pc, graph_state,
                    all_final_analyses, final_report, s3_objects, stage_log >>

(***************************************************************************)
(* Characters and Python str operations                                    *)
(***************************************************************************)
UpperChars == << "A", "B", "C", "D", "E", "F", "G", "H", "I", "J", "K", "L", "M",
                 "N", "O", "P", "Q", "R", "S", "T", "U", "V", "W", "X", "Y", "Z" >>

LowerChars == << "a", "b", "c", "d", "e", "f", "g", "h", "i", "j", "k", "l", "m",
                 "n", "o", "p", "q", "r", "s", "t", "u", "v", "w", "x", "y", "z" >>

DigitChars == { "0", "1", "2", "3", "4", "5", "6", "7", "8", "9" }

IsUpper(c) == \E i \in DOMAIN UpperChars : UpperChars[i] = c

IsLower(c) == \E i \in DOMAIN LowerChars : LowerChars[i] = c

\* str.lower() on one character
lower_char(c) ==
    IF IsUpper(c)
    THEN LowerChars[CHOOSE i \in DOMAIN UpperChars : UpperChars[i] = c]
    ELSE c

\* str.upper() on one character
upper_char(c) ==
    IF IsLower(c)
    THEN UpperChars[CHOOSE i \in DOMAIN LowerChars : LowerChars[i] = c]
    ELSE c

\* a lowercasing that forgets to lowercase
lower_identity(s) == s

\* schema_name.lower()
lower(s) == [i \in 1..Len(s) |-> lower_char(s[i])]

\* the character class of re.split(r'[_,-]', ...)
Delimiters == { "_", ",", "-" }

RECURSIVE split_from(_, _, _)
split_from(s, i, cur) ==
    IF i > Len(s) THEN << cur >>
    ELSE IF s[i] \in Delimiters
         THEN << cur >> \o split_from(s, i + 1, << >>)
         ELSE split_from(s, i + 1, Append(cur, s[i]))

\* re.split(r'[_,-]', s): every delimiter character ends a part; adjacent
\* delimiters and delimiters at either end give empty parts
re_split(s) == split_from(s, 1, << >>)

\* Python's  sub in s
contains(sub, s) ==
    \E i \in 0..(Len(s) - Len(sub)) : SubSeq(s, i + 1, i + Len(sub)) = sub

\* s.replace(old, ""): every non-overlapping occurrence, left to right
RECURSIVE replace_with_empty(_, _)
replace_with_empty(s, old) ==
    IF Len(s) < Len(old) THEN s
    ELSE IF SubSeq(s, 1, Len(old)) = old
         THEN replace_with_empty(SubSeq(s, Len(old) + 1, Len(s)), old)
         ELSE << Head(s) >> \o replace_with_empty(Tail(s), old)

\* re.sub(r'[^a-z0-9]', '', s)
alnum_cleanup(s) == SelectSeq(s, LAMBDA c : IsLower(c) \/ c \in DigitChars)

\* sorted(keys, key=len, reverse=True): a stable sort, so keys of equal
\* length keep the order they had
insert_by_len(k, sorted) ==
    LET n == Cardinality({ i \in DOMAIN sorted : Len(sorted[i]) >= Len(k) })
    IN  SubSeq(sorted, 1, n) \o << k >> \o SubSeq(sorted, n + 1, Len(sorted))

RECURSIVE sorted_by_len_desc(_)
sorted_by_len_desc(keys) ==
    IF keys = << >> THEN << >>
    ELSE insert_by_len(keys[Len(keys)],
                       sorted_by_len_desc(SubSeq(keys, 1, Len(keys) - 1)))

(***************************************************************************)
(* SimpleSchemaNormalizer.__init__: the synonym tables                     *)
(***************************************************************************)
None == << "None" >>

core_synonyms ==
    << [canon |-> << "a", "d", "m", "i", "n" >>,
        variations |-> << << "a", "d", "m", "i", "n" >>, << "a", "d", "m" >> >>],
       [canon |-> << "u", "s", "e", "r" >>,
        variations |-> << << "u", "s", "e", "r" >>, << "u", "s", "r" >> >>] >>

env_synonyms ==
    << [canon |-> << "p", "r", "o", "d" >>,
        variations |-> << << "p", "r", "o", "d" >>, << "p", "r", "d" >>, << >> >>],
       [canon |-> << "d", "e", "v" >>,
        variations |-> << << "d", "e", "v" >>,
                          << "d", "e", "v", "e", "l", "o", "p" >> >>],
       [canon |-> << "u", "a", "t" >>,
        variations |-> << << "u", "a", "t" >> >>],
       [canon |-> << "t", "e", "s", "t" >>,
        variations |-> << << "t", "e", "s", "t" >>, << "t", "s", "t" >> >>] >>

\* the keys of {var: canon for canon, var_list in synonyms.items() for var in var_list}
\* in insertion order
RECURSIVE map_keys(_)
map_keys(synonyms) ==
    IF synonyms = << >> THEN << >>
    ELSE Head(synonyms).variations \o map_keys(Tail(synonyms))

\* the value of that dict at var: a later pair overrides an earlier one
map_value(synonyms, var) ==
    LET holders == { i \in DOMAIN synonyms :
                       \E j \in DOMAIN synonyms[i].variations :
                           synonyms[i].variations[j] = var }
        last == CHOOSE i \in holders : \A k \in holders : k <= i
    IN  synonyms[last].canon

core_map(var) == map_value(core_synonyms, var)

env_map(var) == map_value(env_synonyms, var)

\* core variations left in the order of the synonym table
core_keys_unsorted == map_keys(core_synonyms)

sorted_core_keys == sorted_by_len_desc(map_keys(core_synonyms))

sorted_env_keys == sorted_by_len_desc(map_keys(env_synonyms))

SeqToSet(s) == { s[i] : i \in DOMAIN s }


(***************************************************************************)
(* SimpleSchemaNormalizer.normalize                                        *)
(***************************************************************************)
\* the index of the first key of `keys` equal to `part`, 0 when there is none
\* (the inner  for key in sorted_keys: if part == key: ... break)
first_equal_key(part, keys) ==
    LET hits == { k \in DOMAIN keys : keys[k] = part }
    IN  IF hits = {} THEN 0 ELSE CHOOSE k \in hits : \A h \in hits : k <= h

\* the first loop over remaining_parts: the leftmost part that equals a core
\* variation gives found_core and is marked as used
core_from_parts(parts) ==
    LET hits == { i \in DOMAIN parts : first_equal_key(parts[i], sorted_core_keys) # 0 }
    IN  IF hits = {}
        THEN [found_core |-> None, part_idx |-> 0]
        ELSE LET i == CHOOSE i \in hits : \A h \in hits : i <= h
             IN  [found_core |-> core_map(sorted_core_keys[
                                     first_equal_key(parts[i], sorted_core_keys)]),
                  part_idx |-> i]

\* the second loop: the leftmost part not marked as used that equals an
\* environment variation (the empty part equals the variation "")
env_from_parts(parts, used_idx) ==
    LET hits == { i \in DOMAIN parts :
                    /\ i # used_idx
                    /\ first_equal_key(parts[i], sorted_env_keys) # 0 }
    IN  IF hits = {}
        THEN None
        ELSE LET i == CHOOSE i \in hits : \A h \in hits : i <= h
             IN  env_map(sorted_env_keys[first_equal_key(parts[i], sorted_env_keys)])

\* if not found_core: the first core variation, longest first, contained in s_lower
core_by_substring(s_lower) ==
    LET hits == { k \in DOMAIN sorted_core_keys : contains(sorted_core_keys[k], s_lower) }
    IN  IF hits = {} THEN None
        ELSE core_map(sorted_core_keys[CHOOSE k \in hits : \A h \in hits : k <= h])

\* if not found_env: the first non-empty environment variation, longest first,
\* contained in the search string
env_by_substring(search_string_for_env) ==
    LET hits == { k \in DOMAIN sorted_env_keys :
                    /\ sorted_env_keys[k] # << >>
                    /\ contains(sorted_env_keys[k], search_string_for_env) }
    IN  IF hits = {} THEN None
        ELSE env_map(sorted_env_keys[CHOOSE k \in hits : \A h \in hits : k <= h])

\* found_core when normalize reaches its return
found_core(name) ==
    LET s_lower == lower(name)
        by_part == core_from_parts(re_split(s_lower)).found_core
    IN  IF by_part # None THEN by_part ELSE core_by_substring(s_lower)

\* found_env when normalize reaches its return (computed, never used)
found_env(name) ==
    LET s_lower == lower(name)
        parts == re_split(s_lower)
        by_part == env_from_parts(parts, core_from_parts(parts).part_idx)
        core == found_core(name)
        temp_search == IF core # None THEN replace_with_empty(s_lower, core) ELSE s_lower
        search_string_for_env == IF temp_search # << >> THEN temp_search ELSE s_lower
    IN  IF by_part # None THEN by_part ELSE env_by_substring(search_string_for_env)

prod_suffix == << "_", "p", "r", "o", "d" >>

\* a normalizer that keeps the detected environment in the canonical form
normalize_keeping_env(name) ==
    IF found_core(name) # None
    THEN found_core(name) \o << "_" >>
         \o (IF found_env(name) # None THEN found_env(name) ELSE << "p", "r", "o", "d" >>)
    ELSE alnum_cleanup(lower(name))

\* a normalizer whose fallback returns the lowercased name as it is
normalize_without_cleanup(name) ==
    IF found_core(name) # None
    THEN found_core(name) \o prod_suffix
    ELSE lower(name)

\* normalize(schema_name): f"{found_core}_prod", or the alphanumeric cleanup
normalize(name) ==
    IF found_core(name) # None
    THEN found_core(name) \o prod_suffix
    ELSE alnum_cleanup(lower(name))


(***************************************************************************)
(* Identifiers and the inputs of a run                                     *)
(***************************************************************************)
ADMPRD == << "A", "D", "M", "P", "R", "D" >>

ADMDEV == << "A", "D", "M", "D", "E", "V" >>

USER_PROD == << "U", "S", "E", "R", "_", "P", "R", "O", "D" >>

USER_UAT == << "U", "S", "E", "R", "_", "U", "A", "T" >>

DEV_ADM == << "D", "E", "V", "_", "A", "D", "M" >>

ADMINPRD == << "A", "D", "M", "I", "N", "P", "R", "D" >>

XYZ_TEST == << "X", "Y", "Z", "_", "T", "E", "S", "T" >>

APP_V1 == << "A", "P", "P", "_", "V", "1" >>

NONEXISTENT_CORE == << "N", "O", "N", "E", "X", "I", "S", "T", "E", "N", "T", "_", "C", "O", "R", "E" >>

\* the list fetch_db_schemas_node assigns
MockDbSchemas ==
    << ADMPRD, ADMDEV, USER_PROD, USER_UAT, DEV_ADM, ADMINPRD, XYZ_TEST, APP_V1 >>

\* initial_input_schemas of the __main__ run
MainInputSchemas == << ADMDEV, USER_UAT, NONEXISTENT_CORE >>

MaxInputs == 2

MaxCandidates == 2

\* identifiers the bounded lists are built from: two that share a canonical
\* form, one with another core, one without a core
IdPool == { ADMDEV, ADMPRD, USER_UAT, XYZ_TEST }

SeqsUpTo(S, n) == UNION { [1..k -> S] : k \in 0..n }

\* identifiers without any character of [a-z0-9]
UNDERSCORE == << "_" >>

DASH_DOT == << "-", "." >>

DegenerateSchemas == << UNDERSCORE, DASH_DOT >>

\* input_schema_list is the caller's input (length >= 0, repetitions allowed)
InputLists ==
    SeqsUpTo(IdPool, MaxInputs) \cup { MainInputSchemas, DegenerateSchemas }

\* what the database query of fetch_db_schemas_node can return: the code's
\* stand-in list, and any short list (length >= 0, repetitions allowed)
CandidateLists ==
    SeqsUpTo(IdPool, MaxCandidates) \cup { MockDbSchemas, DegenerateSchemas }

(***************************************************************************)
(* Python dict operations                                                  *)
(***************************************************************************)
EmptyDict == [k \in {} |-> 0]

\* d[k] = v
dict_set(d, k, v) == [x \in DOMAIN d \cup { k } |-> IF x = k THEN v ELSE d[x]]

\* the history of a run that has just been invoked: no node has run, no
\* cursor position has been compared; invocations counts the invocations of
\* the graph on this state object, the current one included
NoRuns == [fetch_db_schemas |-> 0, get_canonical |-> 0, compare |-> 0,
           advance_or_end |-> 0, should_continue |-> 0,
           input_advances |-> 0, rows_created_in_compare |-> 0,
           visited |-> << >>, invocations |-> 1]

(***************************************************************************)
(* graph_nodes.py                                                          *)
(***************************************************************************)
\* the list element Python reads at a 0-based index (the index is never negative)
InRange(list, idx) == idx < Len(list)

At(list, idx) == list[idx + 1]

\* fetch_db_schemas_node: the candidate list, the cursor at (0, 0), an empty
\* row for the first input schema; then the edge to get_canonical
fetch_db_schemas_node ==
    /\ pc = "fetch_db_schemas"
    /\ \E db \in CandidateLists : all_db_schemas' = db
    /\ current_input_schema_idx' = 0
    /\ current_db_schema_idx' = 0
    /\ final_output' =
          IF input_schema_list # << >>
          THEN dict_set(final_output, At(input_schema_list, 0), EmptyDict)
          ELSE final_output
    /\ node_runs' = [node_runs EXCEPT !.fetch_db_schemas = @ + 1]
    /\ pc' = "get_canonical"
    /\ UNCHANGED << input_schema_list, canonical_forms, normalize_calls >>
    /\ UNCHANGED harness_vars
    /\ UNCHANGED pipeline_vars

\* every identifier a run can meet
KnownIds ==
    IdPool \cup SeqToSet(MockDbSchemas) \cup SeqToSet(MainInputSchemas)
        \cup SeqToSet(DegenerateSchemas)

\* schema_normalizer_instance.normalize(id) for the identifiers of the runs
\* (normalize is pure, so its results are tabulated once)
normalizer_results == [id \in KnownIds |-> normalize(id)]

\* a cache check that never finds the key
needs_normalize_always(cache, key) == TRUE

\* if key not in state['canonical_forms']
needs_normalize(cache, key) == key \notin DOMAIN cache

\* if key not in cache: cache[key] = schema_normalizer_instance.normalize(key)
cache_lookup_or_insert(cache, key) ==
    IF needs_normalize(cache, key) THEN dict_set(cache, key, normalizer_results[key]) ELSE cache

\* the normalizer invocations that statement makes
calls_after(cache, calls, key) ==
    IF needs_normalize(cache, key)
    THEN dict_set(calls, key, IF key \in DOMAIN calls THEN calls[key] + 1 ELSE 1)
    ELSE calls

\* get_canonical_form_node: reads the pair at the cursor (an index past the
\* end of either list raises IndexError, which ends the run), then fills the
\* cache for the input schema and for the candidate
get_canonical_form_node ==
    /\ pc = "get_canonical"
    /\ node_runs' = [node_runs EXCEPT !.get_canonical = @ + 1]
    /\ IF /\ InRange(input_schema_list, current_input_schema_idx)
          /\ InRange(all_db_schemas, current_db_schema_idx)
       THEN LET input_schema_orig == At(input_schema_list, current_input_schema_idx)
                db_schema_orig == At(all_db_schemas, current_db_schema_idx)
                cache1 == cache_lookup_or_insert(canonical_forms, input_schema_orig)
                calls1 == calls_after(canonical_forms, normalize_calls, input_schema_orig)
            IN  /\ canonical_forms' = cache_lookup_or_insert(cache1, db_schema_orig)
                /\ normalize_calls' = calls_after(cache1, calls1, db_schema_orig)
                /\ pc' = "compare"
       ELSE /\ pc' = "IndexError"
            /\ UNCHANGED << canonical_forms, normalize_calls >>
    /\ UNCHANGED << input_schema_list, all_db_schemas, current_input_schema_idx,
                    current_db_schema_idx, final_output >>
    /\ UNCHANGED harness_vars
    /\ UNCHANGED pipeline_vars

\* a comparison that scores the other way round
score_inverted(canonical_input, canonical_db) ==
    IF canonical_input = canonical_db THEN 0 ELSE 1

\* score = 0.0; if canonical_input == canonical_db: score = 1.0
score(canonical_input, canonical_db) ==
    IF canonical_input = canonical_db THEN 1 ELSE 0

\* compare_schemas_node: scores the pair at the cursor from the cached
\* canonical forms, creates the row when it is absent, writes the cell
compare_schemas_node ==
    /\ pc = "compare"
    /\ LET input_schema_orig == At(input_schema_list, current_input_schema_idx)
           db_schema_orig == At(all_db_schemas, current_db_schema_idx)
           canonical_input == canonical_forms[input_schema_orig]
           canonical_db == canonical_forms[db_schema_orig]
           row_absent == input_schema_orig \notin DOMAIN final_output
           with_row == IF row_absent
                       THEN dict_set(final_output, input_schema_orig, EmptyDict)
                       ELSE final_output
       IN  /\ final_output' =
                 dict_set(with_row, input_schema_orig,
                          dict_set(with_row[input_schema_orig], db_schema_orig,
                                   score(canonical_input, canonical_db)))
           /\ node_runs' = [node_runs EXCEPT
                              !.compare = @ + 1,
                              !.visited = Append(@, << current_input_schema_idx,
                                                       current_db_schema_idx >>),
                              !.rows_created_in_compare = IF row_absent THEN @ + 1 ELSE @]
    /\ pc' = "advance_or_end"
    /\ UNCHANGED << input_schema_list, all_db_schemas, current_input_schema_idx,
                    current_db_schema_idx, canonical_forms, normalize_calls >>
    /\ UNCHANGED harness_vars
    /\ UNCHANGED pipeline_vars

\* a row-wrap test that is off by one
candidates_exhausted_late(db_idx, db_schemas) == db_idx > Len(db_schemas)

\* if state['current_db_schema_idx'] >= len(state['all_db_schemas'])
candidates_exhausted(db_idx, db_schemas) == db_idx >= Len(db_schemas)

\* an advance that starts every row with a fresh cache
cache_dropped_per_row(cache, wrapped) == IF wrapped THEN EmptyDict ELSE cache

\* what advance_or_end_node does to the cache: nothing
cache_after_advance(cache, wrapped) == cache

\* an advance that prepares no row
no_row_for_next_input(output, inputs, next_idx) == output

\* if state['current_input_schema_idx'] < len(state['input_schema_list']):
\*     state['final_output'][next_input_schema] = {}
row_for_next_input(output, inputs, next_idx) ==
    IF next_idx < Len(inputs)
    THEN dict_set(output, At(inputs, next_idx), EmptyDict)
    ELSE output

\* advance_or_end_node: the next candidate; past the last candidate, the next
\* input schema at candidate 0, with an empty row when there is a next input
advance_or_end_node ==
    /\ pc = "advance_or_end"
    /\ IF candidates_exhausted(current_db_schema_idx + 1, all_db_schemas)
       THEN /\ current_input_schema_idx' = current_input_schema_idx + 1
            /\ current_db_schema_idx' = 0
            /\ final_output' =
                  row_for_next_input(final_output, input_schema_list,
                                     current_input_schema_idx + 1)
            /\ node_runs' = [node_runs EXCEPT !.advance_or_end = @ + 1,
                                              !.input_advances = @ + 1]
       ELSE /\ current_db_schema_idx' = current_db_schema_idx + 1
            /\ node_runs' = [node_runs EXCEPT !.advance_or_end = @ + 1]
            /\ UNCHANGED << current_input_schema_idx, final_output >>
    /\ canonical_forms' =
          cache_after_advance(canonical_forms,
              candidates_exhausted(current_db_schema_idx + 1, all_db_schemas))
    /\ pc' = "should_continue"
    /\ UNCHANGED << input_schema_list, all_db_schemas, normalize_calls >>
    /\ UNCHANGED harness_vars
    /\ UNCHANGED pipeline_vars

(***************************************************************************)
(* app.py                                                                  *)
(***************************************************************************)
\* a termination test that is off by one
all_inputs_processed_late(input_idx, inputs) == input_idx > Len(inputs)

\* if state['current_input_schema_idx'] >= len(state['input_schema_list'])
all_inputs_processed(input_idx, inputs) == input_idx >= Len(inputs)

\* should_continue_processing and the conditional edges: END once the input
\* index is past the input list, get_canonical otherwise
should_continue_processing ==
    /\ pc = "should_continue"
    /\ pc' = IF all_inputs_processed(current_input_schema_idx, input_schema_list)
             THEN "END"
             ELSE "get_canonical"
    /\ node_runs' = [node_runs EXCEPT !.should_continue = @ + 1]
    /\ UNCHANGED << input_schema_list, all_db_schemas, current_input_schema_idx,
                    current_db_schema_idx, canonical_forms, final_output,
                    normalize_calls >>
    /\ UNCHANGED harness_vars
    /\ UNCHANGED pipeline_vars

\* the analysis pipeline at rest: main() of analyze_project_langgraph.py is
\* not running
PipelineIdle ==
    /\ file_paths = << >>
    /\ files = EmptyDict
    /\ file_idx = 0
    /\ main_pc = "idle"
    /\ graph_state = EmptyDict
    /\ all_final_analyses = << >>
    /\ final_report = None
    /\ s3_objects = {}
    /\ stage_log = << >>

\* the normalizer harness at rest while the graph runs
HarnessIdle ==
    /\ schema_name = << >>
    /\ variant = << >>
    /\ xform = "none"
    /\ result = None
    /\ variant_result = None
    /\ npc = "idle"

\* initial_state of app.py: the caller's input list, everything else empty,
\* and the entry point of the graph
Init ==
    /\ input_schema_list \in InputLists
    /\ all_db_schemas = << >>
    /\ current_input_schema_idx = 0
    /\ current_db_schema_idx = 0
    /\ canonical_forms = EmptyDict
    /\ final_output = EmptyDict
    /\ pc = "fetch_db_schemas"
    /\ node_runs = NoRuns
    /\ normalize_calls = EmptyDict
    /\ HarnessIdle
    /\ PipelineIdle

Next ==
    \/ fetch_db_schemas_node
    \/ get_canonical_form_node
    \/ compare_schemas_node
    \/ advance_or_end_node
    \/ should_continue_processing

Spec == Init /\ [][Next]_vars

\* the graph runner runs the next node as long as there is one
FairSpec == Spec /\ WF_vars(Next)

MaxInvocations == 2

MaxRerunInputs == 1

\* the inputs of a further invocation
RerunInputLists == SeqsUpTo(IdPool, MaxRerunInputs)

\* the caller invokes the compiled graph again on the state object the
\* previous run returned, with an input list of its choice; the graph starts
\* at its entry point with everything else as the previous run left it
invoke_again ==
    /\ pc = "END"
    /\ node_runs.invocations < MaxInvocations
    /\ input_schema_list' \in RerunInputLists
    /\ pc' = "fetch_db_schemas"
    /\ node_runs' = [NoRuns EXCEPT !.invocations = node_runs.invocations + 1]
    /\ normalize_calls' = EmptyDict
    /\ UNCHANGED << all_db_schemas, current_input_schema_idx, current_db_schema_idx,
                    canonical_forms, final_output >>
    /\ UNCHANGED harness_vars
    /\ UNCHANGED pipeline_vars

NextRerun ==
    \/ Next
    \/ invoke_again

\* runs of the graph, one after the other, on one state object
SpecRerun == Init /\ [][NextRerun]_vars


(***************************************************************************)
(* Properties of the comparison driver                                     *)
(***************************************************************************)
n == Len(input_schema_list)

m == Len(all_db_schemas)

InputSet == SeqToSet(input_schema_list)

CandidateSet == SeqToSet(all_db_schemas)

Fetched == pc # "fetch_db_schemas"

\* final_output has a row for every input and, in it, one score for every candidate
MatrixComplete ==
    /\ DOMAIN final_output = InputSet
    /\ \A i \in DOMAIN final_output :
          /\ DOMAIN final_output[i] = CandidateSet
          /\ \A d \in DOMAIN final_output[i] : final_output[i][d] \in { 0, 1 }

\* C1 (as claimed): for every input list of length n >= 0 and candidate list of
\* length m >= 0 the run reaches its terminal state (it never aborts), and at
\* the terminal state final_output holds a row for every input with exactly
\* one score, 0.0 or 1.0, for every candidate.
C1_MatrixCompleteness ==
    /\ pc # "IndexError"
    /\ pc = "END" => MatrixComplete

StepCountInvariant ==
    /\ Fetched =>
          /\ node_runs.compare <= n * m
          /\ node_runs.advance_or_end <= n * m
          /\ node_runs.should_continue <= n * m
          /\ node_runs.get_canonical <= IF n * m = 0 THEN 1 ELSE n * m
    /\ pc = "IndexError" => n = 0 \/ m = 0
    /\ (Fetched /\ n >= 1 /\ m >= 1) => pc # "IndexError"
    /\ pc = "END" =>
          /\ n >= 1 /\ m >= 1
          /\ node_runs.get_canonical = n * m
          /\ node_runs.compare = n * m
          /\ node_runs.advance_or_end = n * m
          /\ node_runs.should_continue = n * m
          /\ node_runs.input_advances = n

C3_EmptyInputList ==
    n = 0 =>
        /\ node_runs.get_canonical = 0
        /\ node_runs.compare = 0
        /\ pc # "IndexError"
        /\ pc = "END" => final_output = EmptyDict /\ canonical_forms = EmptyDict

C5_ScoreCorrectness ==
    /\ \A k \in DOMAIN canonical_forms : canonical_forms[k] = normalizer_results[k]
    /\ \A i \in DOMAIN final_output : \A d \in DOMAIN final_output[i] :
          final_output[i][d] =
              IF normalizer_results[i] = normalizer_results[d] THEN 1 ELSE 0

\* a matching cell and a non-matching cell have been written
C5_Witness ==
    /\ \E i \in DOMAIN final_output : \E d \in DOMAIN final_output[i] :
          i # d /\ final_output[i][d] = 1
    /\ \E i \in DOMAIN final_output : \E d \in DOMAIN final_output[i] :
          final_output[i][d] = 0

\* C6 (as claimed): a cell of final_output that has been written stays present
\* with the same value in every later state of the run.
C6_WriteOnceMatrix ==
    [][\A i \in DOMAIN final_output : \A d \in DOMAIN final_output[i] :
          /\ i \in DOMAIN final_output'
          /\ d \in DOMAIN final_output'[i]
          /\ final_output'[i][d] = final_output[i][d]]_vars

\* C7: a key of canonical_forms keeps its value and is never removed, the
\* normalizer is invoked at most once per identifier, and every cached value
\* is the normalizer's result for its key.
C7_CacheStability ==
    /\ [](/\ \A k \in DOMAIN normalize_calls : normalize_calls[k] <= 1
          /\ DOMAIN normalize_calls = DOMAIN canonical_forms
          /\ \A k \in DOMAIN canonical_forms :
                canonical_forms[k] = normalizer_results[k])
    /\ [][\A k \in DOMAIN canonical_forms :
             /\ k \in DOMAIN canonical_forms'
             /\ canonical_forms'[k] = canonical_forms[k]]_vars

\* NORMALIZE_PAIR has run on a second pair, which shares an identifier with
\* the first, and that identifier has been normalized once
C7_Witness ==
    /\ pc = "compare"
    /\ node_runs.get_canonical >= 2
    /\ \E k \in DOMAIN normalize_calls : normalize_calls[k] = 1

\* C8: when the run terminates, the keys of canonical_forms are exactly the
\* identifiers of input_schema_list and of all_db_schemas.
C8_CacheCoverage ==
    pc = "END" => DOMAIN canonical_forms = InputSet \cup CandidateSet

\* a finished run over an input list and a candidate list that share an
\* identifier and also differ
C8_Witness ==
    /\ pc = "END"
    /\ InputSet \cap CandidateSet # {}
    /\ InputSet \ CandidateSet # {}
    /\ CandidateSet \ InputSet # {}


(***************************************************************************)
(* The pure function normalize on bounded inputs                           *)
(*                                                                         *)
(* A state holds an identifier (schema_name), an identifier derived from   *)
(* it by one rewriting (variant, xform), and, once normalize has been      *)
(* applied to both, the two canonical forms.                               *)
(***************************************************************************)
MaxNameLen == 3

\* the characters of the exhaustively enumerated identifiers: the letters of
\* the core variation "adm" and two delimiters
NameAlphabet == { "a", "d", "m", "_", "-" }

ADM == << "A", "D", "M" >>

ADM_PRD == << "A", "D", "M", "_", "P", "R", "D" >>

adm_dash_prd == << "a", "d", "m", "-", "p", "r", "d" >>

admprd == << "a", "d", "m", "p", "r", "d" >>

USR_ADMIN == << "U", "S", "R", "_", "A", "D", "M", "I", "N" >>

USRADMIN == << "U", "S", "R", "A", "D", "M", "I", "N" >>

admin_prod == << "a", "d", "m", "i", "n", "_", "p", "r", "o", "d" >>

user_prod == << "u", "s", "e", "r", "_", "p", "r", "o", "d" >>

Separators == { << >> } \cup { << d >> : d \in Delimiters }

CoreVariations == SeqToSet(map_keys(core_synonyms))

EnvVariations == SeqToSet(map_keys(env_synonyms))

\* core + separator + environment, and environment + separator + core
EnvCollapseInputs ==
    UNION { { c \o s \o e, e \o s \o c } :
              << c, s, e >> \in CoreVariations \X Separators \X EnvVariations }

NamedInputs ==
    KnownIds \cup { ADM, ADM_PRD, adm_dash_prd, admprd, USR_ADMIN, USRADMIN }

\* two core variations, with or without a separator between them
CorePairInputs ==
    { c1 \o s \o c2 : << c1, s, c2 >> \in CoreVariations \X Separators \X CoreVariations }

NormInputs ==
    SeqsUpTo(NameAlphabet, MaxNameLen) \cup EnvCollapseInputs \cup NamedInputs
        \cup CorePairInputs

toggle_char(c) == IF IsUpper(c) THEN lower_char(c) ELSE upper_char(c)

LetterPositions(s) == { p \in DOMAIN s : IsUpper(s[p]) \/ IsLower(s[p]) }

DelimiterPositions(s) == { p \in DOMAIN s : s[p] \in Delimiters }

\* the driver at rest while normalize is exercised on its own
DriverIdle ==
    /\ input_schema_list = << >>
    /\ all_db_schemas = << >>
    /\ current_input_schema_idx = 0
    /\ current_db_schema_idx = 0
    /\ canonical_forms = EmptyDict
    /\ final_output = EmptyDict
    /\ pc = "idle"
    /\ node_runs = NoRuns
    /\ normalize_calls = EmptyDict

NormInit ==
    /\ schema_name \in NormInputs
    /\ variant = schema_name
    /\ xform = "none"
    /\ result = None
    /\ variant_result = None
    /\ npc = "choose"
    /\ DriverIdle
    /\ PipelineIdle

Rewritten(how, v) ==
    /\ npc = "choose"
    /\ variant' = v
    /\ xform' = how
    /\ npc' = "call"
    /\ UNCHANGED << schema_name, result, variant_result >>
    /\ UNCHANGED driver_vars
    /\ UNCHANGED pipeline_vars

\* the case of one letter, or of every letter, is changed
change_case ==
    \E S \in { { p } : p \in LetterPositions(schema_name) }
             \cup { LetterPositions(schema_name) } :
        /\ S # {}
        /\ Rewritten("case", [p \in DOMAIN schema_name |->
                                IF p \in S THEN toggle_char(schema_name[p])
                                ELSE schema_name[p]])

\* one delimiter is replaced by another delimiter
replace_delimiter ==
    \E p \in DelimiterPositions(schema_name) :
        \E d \in Delimiters \ { schema_name[p] } :
            Rewritten("replace", [schema_name EXCEPT ![p] = d])

\* a delimiter is inserted
insert_delimiter ==
    \E p \in 0..Len(schema_name) : \E d \in Delimiters :
        Rewritten("insert", SubSeq(schema_name, 1, p) \o << d >>
                            \o SubSeq(schema_name, p + 1, Len(schema_name)))

\* a delimiter is removed
remove_delimiter ==
    \E p \in DelimiterPositions(schema_name) :
        Rewritten("remove", SubSeq(schema_name, 1, p - 1)
                            \o SubSeq(schema_name, p + 1, Len(schema_name)))

\* normalize is applied to the identifier and to its variant
call_normalize ==
    /\ npc = "call"
    /\ result' = normalize(schema_name)
    /\ variant_result' = normalize(variant)
    /\ npc' = "done"
    /\ UNCHANGED << schema_name, variant, xform >>
    /\ UNCHANGED driver_vars
    /\ UNCHANGED pipeline_vars

NormNext ==
    \/ change_case
    \/ replace_delimiter
    \/ insert_delimiter
    \/ remove_delimiter
    \/ call_normalize

SpecNorm == NormInit /\ [][NormNext]_vars

(***************************************************************************)
(* Properties of normalize                                                 *)
(***************************************************************************)
\* C9 (as claimed): changing the case of letters, replacing one delimiter by
\* another, inserting a delimiter or removing one does not change
\* normalize(x); normalize("ADM_PRD") = normalize("adm-prd") = normalize("admprd").
C9_CaseAndDelimiterInvarianceAsClaimed ==
    npc = "done" =>
        /\ xform \in { "case", "replace", "insert", "remove" } => variant_result = result
        /\ schema_name \in { ADM_PRD, adm_dash_prd, admprd } => result = normalize(ADM_PRD)

\* C9 (amended): changing the case of (ASCII) letters or replacing one
\* delimiter by another does not change normalize(x), and "ADM_PRD", "adm-prd"
\* and "admprd" have the same canonical form, "admin_prod".
C9_CaseAndDelimiterInvariance ==
    npc = "done" =>
        /\ xform \in { "case", "replace" } => variant_result = result
        /\ schema_name \in { ADM_PRD, adm_dash_prd, admprd } => result = admin_prod

\* normalize has been applied to "ADM_PRD" and to "ADM_PRD" with its delimiter
\* replaced, and to both with the same result
C9_Witness ==
    /\ npc = "done"
    /\ xform = "replace"
    /\ schema_name = ADM_PRD
    /\ variant # schema_name
    /\ result = admin_prod

\* C10: for every core variation c, environment variation e and separator s
\* of '', '_', '-', ',', normalize(c+s+e) and normalize(e+s+c) are the
\* canonical core of c followed by "_prod"; "ADMDEV", "ADMPRD" and "ADM" all
\* give "admin_prod"; whenever a core is found the result is that core
\* followed by "_prod", whatever environment was detected.
C10_EnvironmentCollapsing ==
    npc = "done" =>
        /\ \A c \in CoreVariations : \A s \in Separators : \A e \in EnvVariations :
              schema_name \in { c \o s \o e, e \o s \o c }
                  => result = core_map(c) \o prod_suffix
        /\ schema_name \in { ADMDEV, ADMPRD, ADM } => result = admin_prod
        /\ found_core(schema_name) # None
              => result = found_core(schema_name) \o prod_suffix

\* normalize has been applied to "develop-usr", has detected the environment
\* "dev" and has given "user_prod"
C10_Witness ==
    /\ npc = "done"
    /\ found_env(schema_name) = << "d", "e", "v" >>
    /\ schema_name = << "d", "e", "v", "e", "l", "o", "p", "-", "u", "s", "r" >>
    /\ result = user_prod


xyztest == << "x", "y", "z", "t", "e", "s", "t" >>

\* the identifiers normalize has been applied to, each with its result
Normalized ==
    IF npc = "done"
    THEN { << schema_name, result >>, << variant, variant_result >> }
    ELSE {}

\* the core variations that occur in s as a substring
ContainedCores(s) == { c \in CoreVariations : contains(c, s) }

\* C11: an identifier in which no core variation is found, neither as a
\* delimiter-separated part nor as a substring of the lowercased string,
\* normalizes to the lowercased identifier with every character outside
\* [a-z0-9] removed; normalize("XYZ_TEST") = "xyztest".
C11_UnknownCoreFallback ==
    /\ \A c \in Normalized :
          ContainedCores(lower(c[1])) = {} => c[2] = alnum_cleanup(lower(c[1]))
    /\ \A c \in Normalized : c[1] = XYZ_TEST => c[2] = xyztest

\* normalize has been applied to "XYZ_TEST" and to a variant of it that
\* still has no core, and has given "xyztest" for the first
C11_Witness ==
    /\ npc = "done"
    /\ schema_name = XYZ_TEST
    /\ result = xyztest
    /\ ContainedCores(lower(variant)) = {}

\* the parts of the lowercased identifier that equal a core variation
CoreParts(s) == { i \in DOMAIN re_split(lower(s)) : re_split(lower(s))[i] \in CoreVariations }

\* C17: when a delimiter-separated part of the lowercased identifier equals a
\* core variation, the core is that of the leftmost such part ("USR_ADMIN"
\* gives "user_prod"); otherwise, when a core variation occurs in the string,
\* the core is that of a longest core variation occurring in it ("USRADMIN"
\* gives "admin_prod").
C17_CoreSelectionPrecedence ==
    /\ \A c \in Normalized :
          LET parts == re_split(lower(c[1]))
              hits == CoreParts(c[1])
              inside == ContainedCores(lower(c[1]))
          IN  /\ hits # {} =>
                    LET first == CHOOSE i \in hits : \A h \in hits : i <= h
                    IN  c[2] = core_map(parts[first]) \o prod_suffix
              /\ (hits = {} /\ inside # {}) =>
                    \E v \in inside :
                        /\ \A w \in inside : Len(w) <= Len(v)
                        /\ c[2] = core_map(v) \o prod_suffix
    /\ \A c \in Normalized :
          /\ c[1] = USR_ADMIN => c[2] = user_prod
          /\ c[1] = USRADMIN => c[2] = admin_prod

\* normalize has been applied to "USR_ADMIN" and, the delimiter removed, to
\* "USRADMIN", with different results
C17_Witness ==
    /\ npc = "done"
    /\ schema_name = USR_ADMIN
    /\ variant = USRADMIN
    /\ result = user_prod
    /\ variant_result = admin_prod


(***************************************************************************)
(* Further properties of the comparison driver                             *)
(***************************************************************************)
MainRun == input_schema_list = MainInputSchemas /\ all_db_schemas = MockDbSchemas

\* C12: the run of ["ADMDEV", "USER_UAT", "NONEXISTENT_CORE"] against the
\* eight mocked candidates terminates, with final_output["ADMDEV"]["ADMPRD"]
\* = 1.0, final_output["ADMDEV"]["USER_UAT"] = 0.0 and
\* final_output["NONEXISTENT_CORE"]["APP_V1"] = 0.0.
C12_EndToEndExample ==
    /\ [](MainRun => pc # "IndexError")
    /\ []((MainRun /\ pc = "END") =>
            /\ final_output[ADMDEV][ADMPRD] = 1
            /\ final_output[ADMDEV][USER_UAT] = 0
            /\ final_output[NONEXISTENT_CORE][APP_V1] = 0)
    /\ (MainRun ~> (MainRun /\ pc = "END"))

\* the example run has ended, all 3 x 8 pairs compared
C12_Witness ==
    /\ MainRun
    /\ pc = "END"
    /\ node_runs.compare = Len(MainInputSchemas) * Len(MockDbSchemas)
    /\ final_output[ADMDEV][ADMPRD] = 1

JustFetched ==
    /\ pc = "get_canonical"
    /\ node_runs.fetch_db_schemas = 1
    /\ node_runs.get_canonical = 0

\* C14 (as claimed): once FETCH_CANDIDATES has run, canonical_forms is empty
\* and final_output holds nothing but the empty row of the first input,
\* whatever the state object held before, a further run included.
C14_RunIsolation ==
    JustFetched =>
        /\ canonical_forms = EmptyDict
        /\ final_output =
              IF n > 0 THEN dict_set(EmptyDict, At(input_schema_list, 0), EmptyDict)
              ELSE EmptyDict

\* C15: for non-empty input and candidate lists the cursor is (0, 0) after
\* FETCH_CANDIDATES, 0 <= input_index <= n and 0 <= candidate_index < m hold
\* from then on, NORMALIZE_PAIR and COMPARE_PAIR run only with input_index < n
\* and candidate_index < m (so no list access is out of range), and the
\* terminal state has input_index = n and candidate_index = 0.
C15_CursorBounds ==
    (Fetched /\ n >= 1 /\ m >= 1) =>
        /\ JustFetched => current_input_schema_idx = 0 /\ current_db_schema_idx = 0
        /\ 0 <= current_input_schema_idx /\ current_input_schema_idx <= n
        /\ 0 <= current_db_schema_idx /\ current_db_schema_idx < m
        /\ pc \in { "get_canonical", "compare" } => current_input_schema_idx < n
        /\ pc # "IndexError"
        /\ pc = "END" => current_input_schema_idx = n /\ current_db_schema_idx = 0

\* the cursor on the last pair of a 2 x 2 run, about to be compared
C15_Witness ==
    /\ pc = "compare"
    /\ n = 2 /\ m = 2
    /\ current_input_schema_idx = n - 1
    /\ current_db_schema_idx = m - 1

\* the k-th cursor position in row-major order, k counted from 1
RowMajor(k) == << (k - 1) \div m, (k - 1) % m >>

\* C16: the cursor positions compared are (0,0), (0,1), ..., (n-1,m-1) in
\* row-major order, each once: the positions compared so far are the first
\* ones of that order, at every NORMALIZE_PAIR entry with cursor (i, j) they
\* are exactly the i*m + j positions before (i, j), and at the terminal state
\* all n*m; ADVANCE_OR_TERMINATE increments candidate_index and, only when it
\* reaches m, resets it to 0 and increments input_index by one.
C16_TraversalOrder ==
    /\ [](/\ \A k \in DOMAIN node_runs.visited : node_runs.visited[k] = RowMajor(k)
          /\ pc \in { "get_canonical", "compare" } =>
                Len(node_runs.visited) = current_input_schema_idx * m + current_db_schema_idx
          /\ pc = "END" => Len(node_runs.visited) = n * m)
    /\ [][pc = "advance_or_end" =>
             IF current_db_schema_idx + 1 = m
             THEN /\ current_db_schema_idx' = 0
                  /\ current_input_schema_idx' = current_input_schema_idx + 1
             ELSE /\ current_db_schema_idx' = current_db_schema_idx + 1
                  /\ current_input_schema_idx' = current_input_schema_idx]_vars

\* NORMALIZE_PAIR is entered at cursor (1, 1) of a 2 x 2 run, the three
\* positions before it compared
C16_Witness ==
    /\ pc = "get_canonical"
    /\ n = 2 /\ m = 2
    /\ node_runs.visited = << << 0, 0 >>, << 0, 1 >>, << 1, 0 >> >>

\* s has no character of [a-z0-9] after lowercasing
NoAlnum(s) == alnum_cleanup(lower(s)) = << >>

\* C18: an identifier without any character of [a-z0-9] after lowercasing has
\* the empty canonical form, and two such identifiers paired by the driver
\* get the score 1.0.
C18_DegenerateEmptyForm ==
    /\ \A k \in DOMAIN canonical_forms : NoAlnum(k) => canonical_forms[k] = << >>
    /\ \A i \in DOMAIN final_output : \A d \in DOMAIN final_output[i] :
          (NoAlnum(i) /\ NoAlnum(d)) => final_output[i][d] = 1

\* "_" and "-." have been paired and scored
C18_Witness ==
    /\ UNDERSCORE \in DOMAIN final_output
    /\ DASH_DOT \in DOMAIN final_output[UNDERSCORE]
    /\ final_output[UNDERSCORE][DASH_DOT] = 1
    /\ canonical_forms[DASH_DOT] = << >>

Cursor == << current_input_schema_idx, current_db_schema_idx >>

\* final_output' is final_output with at most the cell [i][d] changed
OnlyCellChanged(i, d) ==
    /\ DOMAIN final_output' = DOMAIN final_output
    /\ \A r \in DOMAIN final_output :
          /\ DOMAIN final_output'[r] = DOMAIN final_output[r] \cup (IF r = i THEN { d } ELSE {})
          /\ \A c \in DOMAIN final_output[r] :
                (r # i \/ c # d) => final_output'[r][c] = final_output[r][c]

\* C19: no step modifies input_schema_list; only FETCH_CANDIDATES modifies
\* all_db_schemas; only FETCH_CANDIDATES and ADVANCE_OR_TERMINATE modify the
\* cursor; only NORMALIZE_PAIR modifies canonical_forms, and it leaves
\* final_output and the cursor unchanged; COMPARE_PAIR changes only the cell
\* final_output[current input][current candidate]; the continue/terminate
\* decision changes nothing.
C19_FrameConditions ==
    [][/\ input_schema_list' = input_schema_list
       /\ pc # "fetch_db_schemas" => all_db_schemas' = all_db_schemas
       /\ pc \notin { "fetch_db_schemas", "advance_or_end" } => Cursor' = Cursor
       /\ pc # "get_canonical" => canonical_forms' = canonical_forms
       /\ pc = "get_canonical" => final_output' = final_output
       /\ pc = "compare" =>
             /\ OnlyCellChanged(At(input_schema_list, current_input_schema_idx),
                                At(all_db_schemas, current_db_schema_idx))
             /\ UNCHANGED << all_db_schemas, canonical_forms >>
       /\ pc = "should_continue" =>
             UNCHANGED << input_schema_list, all_db_schemas, Cursor,
                          canonical_forms, final_output >>]_vars

\* every node has run, COMPARE_PAIR twice, on a row that already had a cell
C19_Witness ==
    /\ pc = "advance_or_end"
    /\ node_runs.compare = 2
    /\ node_runs.should_continue = 1
    /\ \E i \in DOMAIN final_output : Cardinality(DOMAIN final_output[i]) = 2


(***************************************************************************)
(* analyze_project_langgraph.py                                            *)
(***************************************************************************)
MaxFiles == 3

\* the paths read_and_filter_files can return: os.walk yields each path once
AllPaths == [k \in 1..MaxFiles |-> << "file", k >>]

\* a file's text as its lines, each a comment, a blank line or code
RawContents ==
    { << >>, << "comment" >>, << "code" >>, << "comment", "blank", "code" >> }

\* what open(file_path).read() finds: an error, or the text
FileStates ==
    { [readable |-> FALSE, raw_content |-> << >>] }
        \cup { [readable |-> TRUE, raw_content |-> c] : c \in RawContents }

\* clean_code: comments and docstrings removed, blank lines collapsed, the
\* result stripped; the code lines are what is left
clean_code(code) == SelectSeq(code, LAMBDA line : line = "code")

\* response.content of a model invocation that returns
Responses == { << >>, << "r" >> }

\* workflow.set_entry_point("analyze")
entry_point == "analyze"

\* a graph whose analyze node is followed by correct at once
graph_edges_skipping_critique ==
    [analyze |-> "correct", critique |-> "correct", correct |-> "END"]

\* add_edge("analyze", "critique"), add_edge("critique", "correct"),
\* add_edge("correct", END)
graph_edges ==
    [analyze |-> "critique", critique |-> "correct", correct |-> "END"]

\* where main() goes when a node of file_analysis_app has returned
after_node(node) ==
    IF graph_edges[node] = "END" THEN "extend" ELSE graph_edges[node]

\* operator.add, the reducer of all_final_analyses
operator_add(old, new) == old \o new

\* a node that ran, for the history
Ran(node, outcome) ==
    [file |-> IF node = "synthesize" THEN None ELSE At(file_paths, file_idx),
     node |-> node, outcome |-> outcome]

\* an except clause that also throws away the analyses collected so far
except_drops_analyses ==
    /\ file_idx' = file_idx + 1
    /\ main_pc' = "for"
    /\ graph_state' = EmptyDict
    /\ all_final_analyses' = << >>
    /\ UNCHANGED << file_paths, files, final_report, s3_objects >>

\* the except clause of the for loop: the error is logged, the loop goes on
\* with the next file
except_in_loop ==
    /\ file_idx' = file_idx + 1
    /\ main_pc' = "for"
    /\ graph_state' = EmptyDict
    /\ UNCHANGED << file_paths, files, all_final_analyses, final_report, s3_objects >>

\* a model invocation inside a node of file_analysis_app raises: the
\* exception leaves invoke and is caught by the loop
node_raises(node) ==
    /\ stage_log' = Append(stage_log, Ran(node, "raised"))
    /\ except_in_loop

\* a node of file_analysis_app returns an update of one key of the state
node_returns(node, key, value) ==
    /\ stage_log' = Append(stage_log, Ran(node, "returned"))
    /\ graph_state' = dict_set(graph_state, key, value)
    /\ main_pc' = after_node(node)
    /\ UNCHANGED << file_paths, files, file_idx, all_final_analyses,
                    final_report, s3_objects >>

\* the body of the for loop up to the start of file_analysis_app.invoke:
\* the file is read and cleaned; a read error is caught, an empty text is
\* skipped, otherwise the graph starts on a state of its own
process_file ==
    /\ main_pc = "for"
    /\ file_idx < Len(file_paths)
    /\ LET file_path == At(file_paths, file_idx)
           cleaned_content == clean_code(files[file_path].raw_content)
       IN  IF ~files[file_path].readable
           THEN except_in_loop /\ UNCHANGED stage_log
           ELSE IF cleaned_content = << >>
           THEN /\ file_idx' = file_idx + 1
                /\ UNCHANGED << file_paths, files, main_pc, graph_state,
                                all_final_analyses, final_report, s3_objects,
                                stage_log >>
           ELSE /\ graph_state' =
                      [key \in { "file_path", "file_content", "all_final_analyses" } |->
                          CASE key = "file_path" -> file_path
                            [] key = "file_content" -> cleaned_content
                            [] OTHER -> operator_add(<< >>, << >>)]
                /\ main_pc' = entry_point
                /\ UNCHANGED << file_paths, files, file_idx, all_final_analyses,
                                final_report, s3_objects, stage_log >>
    /\ UNCHANGED driver_vars
    /\ UNCHANGED harness_vars

\* the keys a node reads are in the state (a missing key is a KeyError)
has_keys(keys) == keys \subseteq DOMAIN graph_state

analyze_node ==
    /\ main_pc = "analyze"
    /\ \/ node_raises("analyze")
       \/ /\ has_keys({ "file_path", "file_content" })
          /\ \E content \in Responses :
                node_returns("analyze", "initial_analysis", content)
    /\ UNCHANGED driver_vars
    /\ UNCHANGED harness_vars

critique_node ==
    /\ main_pc = "critique"
    /\ \/ node_raises("critique")
       \/ /\ has_keys({ "file_path", "file_content", "initial_analysis" })
          /\ \E content \in Responses :
                node_returns("critique", "critique", content)
    /\ UNCHANGED driver_vars
    /\ UNCHANGED harness_vars

\* correct_node returns a one-element list, which the reducer appends
correct_node ==
    /\ main_pc = "correct"
    /\ \/ node_raises("correct")
       \/ /\ has_keys({ "file_path", "file_content", "initial_analysis", "critique" })
          /\ \E content \in Responses :
                LET final_analysis_text ==
                        [file_path |-> graph_state["file_path"], content |-> content]
                IN  node_returns("correct", "all_final_analyses",
                                 operator_add(graph_state["all_final_analyses"],
                                              << final_analysis_text >>))
    /\ UNCHANGED driver_vars
    /\ UNCHANGED harness_vars

\* final_state["all_final_analyses"].extend(result["all_final_analyses"])
extend_final_state ==
    /\ main_pc = "extend"
    /\ all_final_analyses' = all_final_analyses \o graph_state["all_final_analyses"]
    /\ file_idx' = file_idx + 1
    /\ main_pc' = "for"
    /\ graph_state' = EmptyDict
    /\ UNCHANGED << file_paths, files, final_report, s3_objects, stage_log >>
    /\ UNCHANGED driver_vars
    /\ UNCHANGED harness_vars

\* after the loop: main() returns when there is no analysis, and goes on to
\* the synthesis otherwise
end_of_loop ==
    /\ main_pc = "for"
    /\ file_idx = Len(file_paths)
    /\ main_pc' = IF all_final_analyses = << >> THEN "returned" ELSE "synthesize"
    /\ UNCHANGED << file_paths, files, file_idx, graph_state, all_final_analyses,
                    final_report, s3_objects, stage_log >>
    /\ UNCHANGED driver_vars
    /\ UNCHANGED harness_vars

\* synthesize_node, called by main() outside any try: an exception of the
\* model ends the program
synthesize_node ==
    /\ main_pc = "synthesize"
    /\ \/ /\ stage_log' = Append(stage_log, Ran("synthesize", "raised"))
          /\ main_pc' = "crashed"
          /\ UNCHANGED final_report
       \/ /\ stage_log' = Append(stage_log, Ran("synthesize", "returned"))
          /\ \E content \in Responses : final_report' = content
          /\ main_pc' = "upload"
    /\ UNCHANGED << file_paths, files, file_idx, graph_state, all_final_analyses,
                    s3_objects >>
    /\ UNCHANGED driver_vars
    /\ UNCHANGED harness_vars

S3_BUCKET_NAME == << "your-unique-bucket-name-here" >>

\* the upload step: skipped while S3_BUCKET_NAME is the placeholder,
\* otherwise put_object, which stores the report or fails
upload_to_s3 ==
    /\ main_pc = "upload"
    /\ IF S3_BUCKET_NAME = << "your-unique-bucket-name-here" >>
       THEN UNCHANGED s3_objects
       ELSE \/ s3_objects' = s3_objects \cup
                    { [report |-> final_report, analyses |-> all_final_analyses] }
            \/ UNCHANGED s3_objects
    /\ main_pc' = "returned"
    /\ UNCHANGED << file_paths, files, file_idx, graph_state, all_final_analyses,
                    final_report, stage_log >>
    /\ UNCHANGED driver_vars
    /\ UNCHANGED harness_vars

\* main() at the head of its for loop: the files found, nothing analysed
PipeInit ==
    /\ \E k \in 0..MaxFiles : file_paths = SubSeq(AllPaths, 1, k)
    /\ files \in [SeqToSet(file_paths) -> FileStates]
    /\ file_idx = 0
    /\ main_pc = "for"
    /\ graph_state = EmptyDict
    /\ all_final_analyses = << >>
    /\ final_report = None
    /\ s3_objects = {}
    /\ stage_log = << >>
    /\ DriverIdle
    /\ HarnessIdle

PipeNext ==
    \/ process_file
    \/ analyze_node
    \/ critique_node
    \/ correct_node
    \/ extend_final_state
    \/ end_of_loop
    \/ synthesize_node
    \/ upload_to_s3

SpecPipeline == PipeInit /\ [][PipeNext]_vars

\* the position of a path in file_paths, from 0
IndexOfPath(path) == CHOOSE k \in 0..(Len(file_paths) - 1) : At(file_paths, k) = path

\* the files whose correct node returned, in the order of the history
Corrected ==
    LET done == SelectSeq(stage_log,
                    LAMBDA e : e.node = "correct" /\ e.outcome = "returned")
    IN  [k \in DOMAIN done |-> done[k].file]

\* the files of the entries of a list of final analyses
FilesOf(analyses) == [k \in DOMAIN analyses |-> analyses[k].file_path]

\* e is the history entry of node having returned for file
Returned(e, file, node) == e = [file |-> file, node |-> node, outcome |-> "returned"]

\* C20: for each file the nodes run in the order analyze, critique, correct,
\* each at most once and each only after its predecessor returned for that
\* file (critique starts with initial_analysis in the state, correct with
\* critique in the state), files are processed in the order of file_paths;
\* every file whose correct node returned has exactly one entry in
\* all_final_analyses and no other file has one, the entries are in file
\* order; synthesize runs at most once and only after the loop over all
\* files has ended.
C20_PipelineOrdering ==
    /\ \A k \in DOMAIN stage_log :
          LET e == stage_log[k] IN
          /\ e.node = "analyze" =>
                \A j \in 1..(k - 1) :
                    /\ stage_log[j].node # "synthesize"
                    /\ IndexOfPath(stage_log[j].file) < IndexOfPath(e.file)
          /\ e.node = "critique" =>
                k > 1 /\ Returned(stage_log[k - 1], e.file, "analyze")
          /\ e.node = "correct" =>
                k > 1 /\ Returned(stage_log[k - 1], e.file, "critique")
          /\ e.node = "synthesize" =>
                /\ k = Len(stage_log)
                /\ file_idx = Len(file_paths)
                /\ main_pc \notin { "for", "analyze", "critique", "correct", "extend" }
    /\ main_pc = "critique" => "initial_analysis" \in DOMAIN graph_state
    /\ main_pc = "correct" => "critique" \in DOMAIN graph_state
    /\ main_pc = "synthesize" => file_idx = Len(file_paths)
    /\ main_pc = "extend" =>
          /\ FilesOf(graph_state["all_final_analyses"]) = << At(file_paths, file_idx) >>
          /\ Corrected = FilesOf(all_final_analyses) \o << At(file_paths, file_idx) >>
    /\ main_pc # "extend" => Corrected = FilesOf(all_final_analyses)
    /\ \A j, k \in DOMAIN all_final_analyses :
          j < k => IndexOfPath(all_final_analyses[j].file_path)
                      < IndexOfPath(all_final_analyses[k].file_path)

\* three files, the second one failed in a node, the other two analysed and
\* the report synthesized
C20_Witness ==
    /\ main_pc = "returned"
    /\ final_report # None
    /\ Len(file_paths) = 3
    /\ FilesOf(all_final_analyses) = << At(file_paths, 0), At(file_paths, 2) >>
    /\ \E k \in DOMAIN stage_log :
          stage_log[k].file = At(file_paths, 1) /\ stage_log[k].outcome = "raised"

\* the history entries of a file
LogOf(path) == SelectSeq(stage_log, LAMBDA e : e.file = path)

\* reading the file raises
Unreadable(path) == ~files[path].readable

\* the file is read and is empty after cleaning
EmptyAfterCleaning(path) ==
    files[path].readable /\ clean_code(files[path].raw_content) = << >>

\* a node of the file's graph run raised
StageFailed(path) ==
    \E k \in DOMAIN stage_log : stage_log[k].file = path /\ stage_log[k].outcome = "raised"

\* this step is a failure of the current file: its read or one of its nodes
\* raises
FailureStep ==
    \/ /\ main_pc = "for"
       /\ file_idx < Len(file_paths)
       /\ Unreadable(At(file_paths, file_idx))
    \/ /\ main_pc \in { "analyze", "critique", "correct" }
       /\ Len(stage_log') = Len(stage_log) + 1
       /\ stage_log'[Len(stage_log')].outcome = "raised"

IsPrefix(s, t) == Len(s) <= Len(t) /\ SubSeq(t, 1, Len(s)) = s

\* C21: a file whose read or whose analyze, critique or correct node fails
\* has no entry in all_final_analyses; the failing step leaves the entries
\* of the earlier files as they are and hands over to the next file, and no
\* step ever removes or changes an entry; no model is invoked for a file
\* that cannot be read or is empty after cleaning; while no file has
\* yielded an analysis, synthesize has not run, there is no report and
\* nothing has been uploaded.
C21_FailureIsolation ==
    /\ [](/\ \A path \in SeqToSet(file_paths) :
                /\ (Unreadable(path) \/ EmptyAfterCleaning(path) \/ StageFailed(path)) =>
                      path \notin SeqToSet(FilesOf(all_final_analyses))
                /\ (Unreadable(path) \/ EmptyAfterCleaning(path)) => LogOf(path) = << >>
          /\ all_final_analyses = << >> =>
                /\ \A k \in DOMAIN stage_log : stage_log[k].node # "synthesize"
                /\ main_pc \notin { "synthesize", "upload", "crashed" }
                /\ final_report = None
                /\ s3_objects = {})
    /\ [][/\ main_pc # "idle" => IsPrefix(all_final_analyses, all_final_analyses')
          /\ FailureStep =>
                /\ all_final_analyses' = all_final_analyses
                /\ file_idx' = file_idx + 1
                /\ main_pc' = "for"]_vars

\* three files: the first analysed, the critique of the second raised, the
\* third could not be read; the loop has gone through all of them
C21_Witness ==
    /\ main_pc = "synthesize"
    /\ Len(file_paths) = 3
    /\ FilesOf(all_final_analyses) = << At(file_paths, 0) >>
    /\ \E k \in DOMAIN stage_log :
          /\ stage_log[k].file = At(file_paths, 1)
          /\ stage_log[k].node = "critique"
          /\ stage_log[k].outcome = "raised"
    /\ Unreadable(At(file_paths, 2))

\* C22: in a run that starts at FETCH_CANDIDATES with a non-empty input
\* list, whenever COMPARE_PAIR is about to run final_output has a row for the
\* current input schema, and the row creation inside COMPARE_PAIR has never
\* been taken.
C22_RowPreInitialisation ==
    n > 0 =>
        /\ pc = "compare" =>
              At(input_schema_list, current_input_schema_idx) \in DOMAIN final_output
        /\ node_runs.rows_created_in_compare = 0

\* COMPARE_PAIR is about to run on the first pair of the second input, whose
\* row ADVANCE_OR_TERMINATE has prepared
C22_Witness ==
    /\ pc = "compare"
    /\ current_input_schema_idx = 1
    /\ current_db_schema_idx = 0
    /\ At(input_schema_list, 1) # At(input_schema_list, 0)
    /\ final_output[At(input_schema_list, 1)] = EmptyDict
    /\ node_runs.input_advances = 1

==========================================================================
